---------------------------- MODULE Spec2Model ----------------------------
(***************************************************************************)
(* gotodo: the task mutation engine of src/main.go.                        *)
(*                                                                         *)
(* Texts are sequences of one-character strings (<<"2","0","0">> is the    *)
(* text 200).  Instants are ticks since Go's zero time: 0 is time.Time{},  *)
(* one day is TicksPerDay ticks and a calendar date d (parsed as UTC       *)
(* midnight) is the instant d * TicksPerDay.  The process clock is UTC.    *)
(* An optional (pointer) field of a patch is <<>> for nil and <<v>> for   *)
(* a pointer to v.  An error is its message, "" for nil.                   *)
(***************************************************************************)
EXTENDS Integers, Sequences, FiniteSets, TLC

VARIABLES
    todos,      \* main: the in-memory collection (var todos []Todo)
    file,       \* the data file: [present, doc]
    disk,       \* what the next os.Create / f.Write will do
    now,        \* time.Now()
    last,       \* what the last operation returned
    mu,         \* main: var mu sync.Mutex; 0 is unlocked, else the holder
    pc,         \* per web request: its position in its handler
    req,        \* per web request: the handler's arguments
    loc,        \* per web request: the handler's local variables
    stable,     \* the collection as the last completed mutation left it
    serial,     \* the collection had each mutation run alone, in lock order
    arg,        \* input of the function under test (pure-function specs)
    out         \* its result

vars == <<todos, file, disk, now, last, mu, pc, req, loc, stable, serial, arg, out>>

-----------------------------------------------------------------------------
(* Bounds of the model *)

\* Ticks in 24 hours (the clock's resolution).
TicksPerDay == 2
\* Longest collection the model builds.
MaxTodos == 2
\* Last calendar day of the dates and clock readings the functions are tried on.
MaxDay == 3
\* Longest priority text the parser is tried on.
MaxDigits == 3
\* Web requests the server handles at the same time.
MaxRequests == 2
\* Most fields a patch of the input set carries.
MaxPatchFields == 2

-----------------------------------------------------------------------------
(* Values *)

None == <<>>
Some(v) == <<v>>

\* time.Time{}
ZeroTime == 0

\* const dateYYYYMMDD: a well-formed date text names a calendar day; the
\* text is kept as <<"date", d>>, the same text with blanks around it as
\* <<"padded", d>>, the empty text as <<>>, and any other text as <<"bad">>.
DateText(d) == <<"date", d>>
PaddedDateText(d) == <<"padded", d>>
BadDateText == <<"bad">>

\* strings.TrimSpace on a date text.
TrimDateText(s) ==
    IF s # <<>> /\ s[1] = "padded" THEN DateText(s[2]) ELSE s

\* time.Time.Round(d): to the nearest multiple of d since the zero time,
\* halfway values rounding up.
Round(t, d) ==
    LET r == t % d
    IN  IF r + r < d THEN t - r ELSE t + (d - r)

\* The calendar day of an instant.
DayOf(t) == t \div TicksPerDay

RECURSIVE TrimLeft(_)
TrimLeft(s) ==
    IF s # <<>> /\ Head(s) = " " THEN TrimLeft(Tail(s)) ELSE s

RECURSIVE TrimRight(_)
TrimRight(s) ==
    IF s # <<>> /\ s[Len(s)] = " " THEN TrimRight(SubSeq(s, 1, Len(s) - 1)) ELSE s

\* strings.TrimSpace
TrimSpace(s) == TrimRight(TrimLeft(s))

-----------------------------------------------------------------------------
(* Validation functions *)

isValidPriority_UpToSix(p) == p >= 1 /\ p <= 6

isValidPriority(p) == p >= 1 /\ p <= 5

isValidDeadline(t, n) == t >= Round(n, TicksPerDay)

-----------------------------------------------------------------------------
(* Conversion functions *)

DigitChars == <<"0", "1", "2", "3", "4", "5", "6", "7", "8", "9">>

IsDigit(c) == \E i \in 1..Len(DigitChars) : DigitChars[i] = c

DigitVal(c) == (CHOOSE i \in 1..Len(DigitChars) : DigitChars[i] = c) - 1

RECURSIVE DecimalValue(_)
DecimalValue(s) ==
    IF s = <<>> THEN 0
    ELSE 10 * DecimalValue(SubSeq(s, 1, Len(s) - 1)) + DigitVal(s[Len(s)])

\* Whether a text is a decimal integer: an optional sign and one or more digits.
IsInteger(s) ==
    LET body == IF s # <<>> /\ Head(s) \in {"+", "-"} THEN Tail(s) ELSE s
    IN  body # <<>> /\ \A i \in 1..Len(body) : IsDigit(body[i])

IntegerValue(s) ==
    LET neg  == s # <<>> /\ Head(s) = "-"
        body == IF s # <<>> /\ Head(s) \in {"+", "-"} THEN Tail(s) ELSE s
    IN  IF neg THEN 0 - DecimalValue(body) ELSE DecimalValue(body)

Int8Min == -128
Int8Max == 127

\* strconv.ParseInt(s, 10, 8): a syntax error for a text that is no integer,
\* a range error for an integer that does not fit in 8 bits.
ParseInt8(s) ==
    IF ~IsInteger(s) THEN [err |-> "syntax", val |-> 0]
    ELSE IF IntegerValue(s) < Int8Min \/ IntegerValue(s) > Int8Max
         THEN [err |-> "range", val |-> 0]
         ELSE [err |-> "", val |-> IntegerValue(s)]

stringToPriority(s) ==
    IF s = <<>> THEN [val |-> None, err |-> ""]
    ELSE IF ParseInt8(s).err # ""
         THEN [val |-> None, err |-> "invalid priority format"]
         ELSE [val |-> Some(ParseInt8(s).val), err |-> ""]

stringToDeadline(s) ==
    IF s = <<>> THEN [val |-> None, err |-> ""]
    ELSE IF s[1] # "date"
         THEN [val |-> None, err |-> "invalid deadline format"]
         ELSE [val |-> Some(s[2] * TicksPerDay), err |-> ""]

-----------------------------------------------------------------------------
(* The mutation engine *)

\* type Todo struct
Todo(p, dl, added, doneAt, done, summary, details) ==
    [Priority |-> p, Deadline |-> dl, AddedAt |-> added, DoneAt |-> doneAt,
     Done |-> done, Summary |-> summary, Details |-> details]

\* type TodoPatch struct
TodoPatch(done, summary, details, p, dl) ==
    [Done |-> done, Summary |-> summary, Details |-> details,
     Priority |-> p, Deadline |-> dl]

\* The done/doneAt pair after one pass of the loop body of patchTodos.
toggleDone_SetOnly(t, patch, n) ==
    IF patch.Done # None /\ patch.Done[1]
    THEN [t EXCEPT !.DoneAt = n, !.Done = TRUE]
    ELSE t

toggleDone_KeepDoneAt(t, patch, n) ==
    IF patch.Done # None /\ patch.Done[1]
    THEN IF ~t.Done
         THEN [t EXCEPT !.DoneAt = n, !.Done = TRUE]
         ELSE [t EXCEPT !.Done = FALSE]
    ELSE t

toggleDone(t, patch, n) ==
    IF patch.Done # None /\ patch.Done[1]
    THEN IF ~t.Done
         THEN [t EXCEPT !.DoneAt = n, !.Done = TRUE]
         ELSE [t EXCEPT !.Done = FALSE, !.DoneAt = ZeroTime]
    ELSE t

\* The overwrites that write the empty text for details the patch lacks.
overwrite_ClearsDetails(t, patch) ==
    LET t1 == IF patch.Summary # None THEN [t EXCEPT !.Summary = patch.Summary[1]] ELSE t
        t2 == [t1 EXCEPT !.Details = IF patch.Details # None THEN patch.Details[1] ELSE <<>>]
        t3 == IF patch.Priority # None THEN [t2 EXCEPT !.Priority = patch.Priority[1]] ELSE t2
    IN  IF patch.Deadline # None THEN [t3 EXCEPT !.Deadline = patch.Deadline[1]] ELSE t3

\* The overwrites of the loop body of patchTodos.
overwrite(t, patch) ==
    LET t1 == IF patch.Summary # None THEN [t EXCEPT !.Summary = patch.Summary[1]] ELSE t
        t2 == IF patch.Details # None THEN [t1 EXCEPT !.Details = patch.Details[1]] ELSE t1
        t3 == IF patch.Priority # None THEN [t2 EXCEPT !.Priority = patch.Priority[1]] ELSE t2
    IN  IF patch.Deadline # None THEN [t3 EXCEPT !.Deadline = patch.Deadline[1]] ELSE t3

\* One pass of the loop of patchTodos over a record that matches.
patchOne(t, patch, n) == overwrite(toggleDone(t, patch, n), patch)

matches(t, match) == t.Summary = match

patchTodos_FirstOnly(ts, match, patch, n) ==
    LET hit == {i \in 1..Len(ts) : matches(ts[i], match)}
        first == IF hit = {} THEN 0 ELSE CHOOSE i \in hit : \A j \in hit : i <= j
    IN  [todos |-> [i \in 1..Len(ts) |->
                        IF i = first THEN patchOne(ts[i], patch, n) ELSE ts[i]],
         updated |-> IF hit = {} THEN 0 ELSE 1]

patchTodos(ts, match, patch, n) ==
    [todos |-> [i \in 1..Len(ts) |->
                    IF matches(ts[i], match) THEN patchOne(ts[i], patch, n) ELSE ts[i]],
     updated |-> Cardinality({i \in 1..Len(ts) : matches(ts[i], match)})]

\* The filter that drops the first record that matches only.
deleteTodos_FirstOnly(ts, summary) ==
    LET hit == {i \in 1..Len(ts) : ts[i].Summary = summary}
        first == IF hit = {} THEN 0 ELSE CHOOSE i \in hit : \A j \in hit : i <= j
    IN  [todos |-> IF first = 0 THEN ts
                   ELSE SubSeq(ts, 1, first - 1) \o SubSeq(ts, first + 1, Len(ts)),
         deleted |-> IF first = 0 THEN 0 ELSE 1]

RECURSIVE deleteTodos(_, _)
deleteTodos(ts, summary) ==
    IF ts = <<>> THEN [todos |-> <<>>, deleted |-> 0]
    ELSE LET rest == deleteTodos(Tail(ts), summary)
         IN  IF matches(Head(ts), summary)
             THEN [todos |-> rest.todos, deleted |-> rest.deleted + 1]
             ELSE [todos |-> <<Head(ts)>> \o rest.todos, deleted |-> rest.deleted]

findFirstTodo(ts, summary) ==
    LET hit == {i \in 1..Len(ts) : matches(ts[i], summary)}
    IN  IF hit = {} THEN None
        ELSE Some(ts[CHOOSE i \in hit : \A j \in hit : i <= j])

-----------------------------------------------------------------------------
(* The display sort *)

\* The comparator with the lower priority first.
less_LowPriorityFirst(a, b) ==
    IF a.Done # b.Done THEN ~a.Done /\ b.Done
    ELSE IF a.Done /\ b.Done THEN a.DoneAt < b.DoneAt
    ELSE IF a.Deadline # b.Deadline THEN a.Deadline < b.Deadline
    ELSE IF a.Priority # b.Priority THEN a.Priority < b.Priority
    ELSE a.AddedAt < b.AddedAt

\* The comparator that puts a done task before one done at the same instant.
less_DoneAtOrEqual(a, b) ==
    IF a.Done # b.Done THEN ~a.Done /\ b.Done
    ELSE IF a.Done /\ b.Done THEN a.DoneAt <= b.DoneAt
    ELSE IF a.Deadline # b.Deadline THEN a.Deadline < b.Deadline
    ELSE IF a.Priority # b.Priority THEN a.Priority > b.Priority
    ELSE a.AddedAt < b.AddedAt

\* The less function sortTodos gives sort.Slice.
less(a, b) ==
    IF a.Done # b.Done THEN ~a.Done /\ b.Done
    ELSE IF a.Done /\ b.Done THEN a.DoneAt < b.DoneAt
    ELSE IF a.Deadline # b.Deadline THEN a.Deadline < b.Deadline
    ELSE IF a.Priority # b.Priority THEN a.Priority > b.Priority
    ELSE a.AddedAt < b.AddedAt

\* The ways of arranging n records.
Arrangements(n) ==
    {f \in [1..n -> 1..n] : \A i, j \in 1..n : f[i] = f[j] => i = j}

\* sortTodos: sort.Slice on a copy.  sort.Slice is not stable: it may return
\* any arrangement of the records in which none is less than one before it.
sortTodos(ts) ==
    {q \in {[i \in 1..Len(ts) |-> ts[f[i]]] : f \in Arrangements(Len(ts))} :
        \A i, j \in 1..Len(q) : i < j => ~less(q[j], q[i])}

-----------------------------------------------------------------------------
(* Persistence *)

NoFile == [present |-> FALSE, doc |-> <<>>]

\* json.Marshal followed by the decoder of load gives back every field of
\* every record: the document is kept as the records it encodes.
Marshal(ts) == [present |-> TRUE, doc |-> ts]

\* dump: os.Create may fail (the file stays as it was), and f.Write may fail
\* after os.Create has truncated the file.
dump(ts, f, d) ==
    CASE d = "ok" -> Marshal(ts)
      [] d = "nocreate" -> f
      [] OTHER -> Marshal(<<>>)

\* load: a missing file, an empty one and one that does not decode all give
\* main an empty collection.
load(f) == IF f.present THEN f.doc ELSE <<>>

-----------------------------------------------------------------------------
(* Operations *)

\* What an operation leaves and returns; locked tells whether it took mu.
Result(ts, f, msg, err, count, dumped) ==
    [todos |-> ts, file |-> f, msg |-> msg, err |-> err, n |-> count,
     dumped |-> dumped, locked |-> TRUE]

\* A return before mu.Lock().
Failed(ts, f, err) == [Result(ts, f, "", err, 0, FALSE) EXCEPT !.locked = FALSE]

\* The add that appends before it has checked the priority.
addTodoOperation_AppendFirst(ts, f, d, summary, details, deadlineStr, priorityStr, n) ==
    LET newTodo == Todo(1, Round(n, TicksPerDay), n, ZeroTime, FALSE,
                        TrimSpace(summary), details)
        appended == Append(ts, newTodo)
        priority == stringToPriority(priorityStr)
    IN  IF TrimSpace(summary) = <<>> THEN Failed(ts, f, "summary is required")
        ELSE IF stringToDeadline(deadlineStr).err # ""
        THEN Failed(ts, f, stringToDeadline(deadlineStr).err)
        ELSE IF priority.err # ""
        THEN [Failed(appended, dump(appended, f, d), priority.err) EXCEPT !.locked = TRUE]
        ELSE Result(appended, dump(appended, f, d), "todo added", "", 1, TRUE)

\* The add of the variant that has no default deadline.
addTodoOperation_DeadlineRequired(ts, f, d, summary, details, deadlineStr, priorityStr, n) ==
    IF TrimSpace(summary) = <<>> THEN Failed(ts, f, "summary is required")
    ELSE
    LET deadline == stringToDeadline(deadlineStr) IN
    IF deadline.err # "" THEN Failed(ts, f, deadline.err)
    ELSE IF deadline.val = None THEN Failed(ts, f, "deadline is required")
    ELSE IF ~isValidDeadline(deadline.val[1], n)
    THEN Failed(ts, f, "deadline is before today")
    ELSE
    LET priority == stringToPriority(priorityStr) IN
    IF priority.err # "" THEN Failed(ts, f, priority.err)
    ELSE IF priority.val # None /\ ~isValidPriority(priority.val[1])
    THEN Failed(ts, f, "priority out of range (1-5)")
    ELSE
    LET p == IF priority.val # None THEN priority.val[1] ELSE 1
        newTodo == Todo(p, deadline.val[1], n, ZeroTime, FALSE, TrimSpace(summary), details)
        appended == Append(ts, newTodo)
    IN  Result(appended, dump(appended, f, d), "todo added", "", 1, TRUE)

addTodoOperation(ts, f, d, summary, details, deadlineStr, priorityStr, n) ==
    IF TrimSpace(summary) = <<>> THEN Failed(ts, f, "summary is required")
    ELSE
    LET deadline == stringToDeadline(deadlineStr) IN
    IF deadline.err # "" THEN Failed(ts, f, deadline.err)
    ELSE IF deadline.val # None /\ ~isValidDeadline(deadline.val[1], n)
    THEN Failed(ts, f, "deadline is before today")
    ELSE
    LET dl == IF deadline.val # None THEN deadline.val[1] ELSE Round(n, TicksPerDay)
        priority == stringToPriority(priorityStr) IN
    IF priority.err # "" THEN Failed(ts, f, priority.err)
    ELSE IF priority.val # None /\ ~isValidPriority(priority.val[1])
    THEN Failed(ts, f, "priority out of range (1-5)")
    ELSE
    LET p == IF priority.val # None THEN priority.val[1] ELSE 1
        newTodo == Todo(p, dl, n, ZeroTime, FALSE, TrimSpace(summary), details)
        appended == Append(ts, newTodo)
    IN  Result(appended, dump(appended, f, d), "todo added", "", 1, TRUE)

deleteTodoOperation(ts, f, d, summary) ==
    LET r == deleteTodos(ts, summary)
    IN  IF r.deleted > 0
        THEN Result(r.todos, dump(r.todos, f, d), "deleted", "", r.deleted, TRUE)
        ELSE Result(ts, f, "no todo found", "", 0, FALSE)

\* The patch applied before it is validated.
setTodoOperation_ValidateLate(ts, f, d, match, patch, n) ==
    LET r == patchTodos(ts, match, patch, n)
        bad == \/ patch.Priority # None /\ ~isValidPriority(patch.Priority[1])
               \/ patch.Deadline # None /\ ~isValidDeadline(patch.Deadline[1], n)
               \/ patch.Summary # None /\ TrimSpace(patch.Summary[1]) = <<>>
    IN  IF bad THEN Result(r.todos, f, "", "invalid patch", 0, FALSE)
        ELSE IF r.updated > 0
        THEN Result(r.todos, dump(r.todos, f, d), "updated", "", r.updated, TRUE)
        ELSE Result(ts, f, "no todo found", "", 0, FALSE)

setTodoOperation(ts, f, d, match, patch, n) ==
    IF patch.Priority # None /\ ~isValidPriority(patch.Priority[1])
    THEN Failed(ts, f, "priority out of range (1-5)")
    ELSE IF patch.Deadline # None /\ ~isValidDeadline(patch.Deadline[1], n)
    THEN Failed(ts, f, "deadline is before today")
    ELSE IF patch.Summary # None /\ TrimSpace(patch.Summary[1]) = <<>>
    THEN Failed(ts, f, "summary cannot be empty")
    ELSE
    LET r == patchTodos(ts, match, patch, n)
    IN  IF r.updated > 0
        THEN Result(r.todos, dump(r.todos, f, d), "updated", "", r.updated, TRUE)
        ELSE Result(ts, f, "no todo found", "", 0, FALSE)

-----------------------------------------------------------------------------
(* Frontends *)

UpperChars == <<"A", "B", "N", "O", "T", "Y">>
LowerChars == <<"a", "b", "n", "o", "t", "y">>

\* The letters the input texts use.
ToLowerChar(c) ==
    IF \E i \in 1..Len(UpperChars) : UpperChars[i] = c
    THEN LowerChars[CHOOSE i \in 1..Len(UpperChars) : UpperChars[i] = c]
    ELSE c

\* strings.ToLower
ToLower(s) == [i \in 1..Len(s) |-> ToLowerChar(s[i])]

isTrue(s) ==
    ToLower(TrimSpace(s)) \in
        {<<"1">>, <<"t">>, <<"t", "r", "u", "e">>, <<"y", "e", "s">>, <<"y">>, <<"o", "n">>}

paramsToPatch(params) ==
    LET p  == stringToPriority(params.priority)
        dl == stringToDeadline(params.deadline)
    IN  IF p.err # "" THEN [patch |-> TodoPatch(None, None, None, None, None), err |-> p.err]
        ELSE IF dl.err # "" THEN [patch |-> TodoPatch(None, None, None, None, None), err |-> dl.err]
        ELSE [patch |-> TodoPatch(
                  IF isTrue(params.done) THEN Some(TRUE) ELSE None,
                  IF TrimSpace(params.summary) # <<>>
                      THEN Some(TrimSpace(params.summary)) ELSE None,
                  IF params.details # <<>> THEN Some(params.details) ELSE None,
                  p.val, dl.val),
              err |-> ""]

\* The /api/set/ handler.
webSet(ts, f, d, match, params, n) ==
    LET pp == paramsToPatch(params)
    IN  IF pp.err # "" THEN Failed(ts, f, pp.err)
        ELSE setTodoOperation(ts, f, d, match, pp.patch, n)

\* main, case args.Set: the arguments become the patch as they are, but
\* for the deadline, which is parsed.
cliSet(ts, f, d, a, n) ==
    IF a.Done = None /\ a.Summary = None /\ a.Details = None
       /\ a.Priority = None /\ a.Deadline = None
    THEN Failed(ts, f, "no fields provided")
    ELSE
    LET dl == IF a.Deadline # None THEN stringToDeadline(a.Deadline[1])
              ELSE [val |-> None, err |-> ""]
    IN  IF dl.err # "" THEN Failed(ts, f, dl.err)
        ELSE setTodoOperation(ts, f, d, a.Match,
                 TodoPatch(a.Done, a.Summary, a.Details, a.Priority, dl.val), n)

\* main, case args.Add: readLine trims every answer.
cliAdd(ts, f, d, summary, details, deadlineStr, priorityStr, n) ==
    addTodoOperation(ts, f, d, TrimSpace(summary), TrimSpace(details),
                     TrimDateText(deadlineStr), TrimSpace(priorityStr), n)

-----------------------------------------------------------------------------
(* Inputs *)

\* The clock starts at midnight of day 1.
NowStart == TicksPerDay
Today == DayOf(NowStart)
\* The first clock reading of day 1 that is not in its first half.
Noon == NowStart + ((TicksPerDay + 1) \div 2)
Instants == {NowStart, Noon}

\* What the operations of the engine specification are called with.
SummaryTexts == {<<" ">>, <<"a">>, <<" ", "b", " ">>}
NewSummaries == {<<" ">>, <<"b">>, <<" ", "b">>}
MatchTexts == {<<"a">>, <<"b">>}
DetailsTexts == {<<>>}
DeadlineTexts ==
    {<<>>, DateText(Today - 1), DateText(Today + 1), PaddedDateText(Today + 1)}
PriorityTexts == {<<>>, <<"5">>, <<"6">>}
PriorityArgs == {5, 6}
DoneTexts == {<<>>, <<"O", "n">>, <<"n", "o">>}

Opt(S) == {None} \cup {Some(v) : v \in S}

\* How many fields of a patch (or of a form) are present.
Present(p) ==
    Cardinality({k \in DOMAIN p : p[k] # <<>>})

\* The arguments of the set subcommand.
SetArgs ==
    {a \in [Done : Opt(BOOLEAN), Summary : Opt(NewSummaries),
            Details : Opt({}), Priority : Opt(PriorityArgs),
            Deadline : Opt({DateText(Today - 1), DateText(Today + 1)})] :
        Present(a) <= 1}

\* The form of /api/set/.
SetParams ==
    {q \in [done : DoneTexts, summary : {<<>>} \cup NewSummaries,
            details : DetailsTexts, priority : PriorityTexts \cup {<<"x">>},
            deadline : DeadlineTexts] :
        Present(q) <= 1}

-----------------------------------------------------------------------------
(* Calls: one operation on a given collection *)

RECURSIVE SeqsUpTo(_, _)
SeqsUpTo(S, k) ==
    IF k = 0 THEN {<<>>}
    ELSE LET shorter == SeqsUpTo(S, k - 1)
         IN  shorter \cup {Append(q, x) : q \in shorter, x \in S}

\* Records the operations can have left in a collection, added before the
\* clock readings of the calls.
SampleTodos ==
    {Todo(p, (Today + 1) * TicksPerDay, NowStart - 1,
          IF dn THEN NowStart - 1 ELSE ZeroTime, dn, sm, <<>>) :
        p \in {1, 5}, dn \in BOOLEAN, sm \in {<<"a">>, <<"b">>}}

Collections == SeqsUpTo(SampleTodos, MaxTodos)

AnyMatch == {<<"a">>, <<"A">>}
DiskStates == {"ok", "nocreate", "nowrite"}

\* Every patch of at most MaxPatchFields fields, valid and invalid ones.
Patches ==
    {p \in [Done : Opt(BOOLEAN), Summary : Opt({<<" ">>, <<" ", "b">>}),
            Details : Opt({<<"d">>}), Priority : Opt({3, 6}),
            Deadline : Opt({(Today - 1) * TicksPerDay, (Today + 2) * TicksPerDay})] :
        Present(p) <= MaxPatchFields}

\* Records that differ in every field, with details, done or not.
DetailedTodos ==
    {Todo(2, (Today + 1) * TicksPerDay, NowStart - 1,
          IF dn THEN NowStart ELSE ZeroTime, dn, <<"a">>, <<"e">>) : dn \in BOOLEAN}
    \cup {Todo(4, (Today + 2) * TicksPerDay, NowStart,
               IF dn THEN NowStart ELSE ZeroTime, dn, <<"b">>, <<"f">>) : dn \in BOOLEAN}

SetCalls ==
    [op : {"set"}, todos : Collections, disk : {"ok", "nowrite"}, match : AnyMatch,
     patch : Patches, now : Instants]
    \cup [op : {"set"}, todos : SeqsUpTo(DetailedTodos, MaxTodos), disk : {"ok"},
          match : {<<"a">>}, patch : Patches, now : {Noon}]

\* Collections one longer than MaxTodos, of not-done records, for the
\* filter: a record that matches between two that do not.
LongCollections ==
    SeqsUpTo({t \in SampleTodos : ~t.Done /\ (t.Summary = <<"a">> => t.Priority = 1)},
             MaxTodos + 1)

DeleteCalls ==
    [op : {"delete"}, todos : Collections \cup LongCollections, disk : DiskStates,
     match : AnyMatch \cup {<<"b">>}]

AddCalls ==
    [op : {"add"}, todos : {c \in Collections : Len(c) <= 1}, disk : {"ok", "nocreate"},
     summary : {<<>>, <<" ">>, <<" ", "a", " ">>}, details : {<<>>, <<"d">>},
     deadline : {<<>>, BadDateText, DateText(Today - 1), DateText(Today),
                 DateText(Today + 1)},
     priority : {<<>>, <<"1">>, <<"6">>, <<"x">>}, now : Instants]

\* Every text of at most MaxDigits of these characters, as the priority of
\* an add that is valid otherwise.
PriorityChars == {"0", "1", "2", "5", "6", "9", "-", "x"}
ParseCalls ==
    [op : {"priority"}, text : SeqsUpTo(PriorityChars, MaxDigits) \ {<<>>}]

\* A date and the clock reading at which it is validated.
ValidateCalls ==
    [op : {"deadline"}, day : 0..MaxDay, now : 1..((MaxDay + 1) * TicksPerDay - 1)]

\* Records for the sort: every combination of done, doneAt, deadline,
\* priority and addedAt over two values each.
SortTodos ==
    {Todo(p, dl * TicksPerDay, ad, IF dn THEN da ELSE ZeroTime, dn, <<"a">>, <<>>) :
        p \in {3, 5}, dl \in {Today, Today + 1}, ad \in {NowStart - 1, NowStart},
        da \in {NowStart - 1, NowStart}, dn \in BOOLEAN}

\* The tasks A, B, C, D of the example: two not done with one deadline and
\* priorities 3 and 5, two done, C before D.
ExampleA == Todo(3, Today * TicksPerDay, NowStart, ZeroTime, FALSE, <<"A">>, <<>>)
ExampleB == Todo(5, Today * TicksPerDay, NowStart, ZeroTime, FALSE, <<"B">>, <<>>)
ExampleC == Todo(1, Today * TicksPerDay, NowStart, NowStart - 1, TRUE, <<"C">>, <<>>)
ExampleD == Todo(1, Today * TicksPerDay, NowStart, NowStart, TRUE, <<"D">>, <<>>)
Example == <<ExampleA, ExampleB, ExampleC, ExampleD>>

\* Collections of up to MaxTodos + 1 records (priority 3 when done, which
\* the comparator does not read then), and the example in every order.
SortCalls ==
    [op : {"sort"},
     todos : SeqsUpTo({t \in SortTodos : t.Done => t.Priority = 3}, MaxTodos + 1)
             \cup {[i \in 1..4 |-> Example[f[i]]] : f \in Arrangements(4)}]

\* Three records for the comparator.
LessCalls == [op : {"less"}, a : SortTodos, b : SortTodos, c : SortTodos]

Calls ==
    SetCalls \cup DeleteCalls \cup AddCalls \cup ParseCalls \cup ValidateCalls
    \cup SortCalls \cup LessCalls

-----------------------------------------------------------------------------
(* The engine: one operation at a time, by the CLI or by the web server *)

NoResult == [op |-> "none", err |-> "", n |-> 0, dumped |-> FALSE]

Digest(op, r) == [op |-> op, err |-> r.err, n |-> r.n, dumped |-> r.dumped]

Init ==
    /\ todos = <<>>
    /\ file = NoFile
    /\ disk = "ok"
    /\ now \in Instants
    /\ last = NoResult
    /\ mu = 0
    /\ pc = <<>>
    /\ req = <<>>
    /\ loc = <<>>
    /\ stable = <<>>
    /\ serial = <<>>
    /\ arg = <<>>
    /\ out = <<>>

web == <<mu, pc, req, loc, stable, serial>>
pure == <<arg, out>>

\* A web operation leaves the server running with the result in memory.
Served(op, r) ==
    /\ todos' = r.todos
    /\ file' = r.file
    /\ last' = Digest(op, r)
    /\ UNCHANGED <<disk, now, web, pure>>

\* A CLI operation is a process of its own: main loads the file, runs the
\* operation and exits, and whoever runs next (the server, started again, or
\* the next subcommand) loads the file it left.
Exited(op, r) ==
    /\ file' = r.file
    /\ todos' = load(r.file)
    /\ last' = Digest(op, r)
    /\ UNCHANGED <<disk, now, web, pure>>

WebAdd ==
    /\ Len(todos) < MaxTodos
    /\ \E s \in SummaryTexts, dt \in DetailsTexts, dl \in DeadlineTexts, p \in PriorityTexts :
          Served("add", addTodoOperation(todos, file, disk, s, dt, dl, p, now))

CliAdd ==
    /\ Len(load(file)) < MaxTodos
    /\ \E s \in SummaryTexts, dt \in DetailsTexts, dl \in DeadlineTexts, p \in PriorityTexts :
          Exited("add", cliAdd(load(file), file, disk, s, dt, dl, p, now))

WebDelete ==
    \E m \in MatchTexts : Served("delete", deleteTodoOperation(todos, file, disk, m))

CliDelete ==
    \E m \in MatchTexts : Exited("delete", deleteTodoOperation(load(file), file, disk, m))

WebSet ==
    \E m \in MatchTexts, q \in SetParams :
        Served("set", webSet(todos, file, disk, m, q, now))

CliSet ==
    \E m \in MatchTexts, a \in SetArgs :
        Exited("set", cliSet(load(file), file, disk, [Match |-> m] @@ a, now))

Next ==
    \/ WebAdd
    \/ CliAdd
    \/ WebDelete
    \/ CliDelete
    \/ WebSet
    \/ CliSet

Spec == Init /\ [][Next]_vars

-----------------------------------------------------------------------------
(* The operations one call at a time *)

InitOps ==
    /\ todos = <<>>
    /\ file = NoFile
    /\ disk = "ok"
    /\ now = NowStart
    /\ last = NoResult
    /\ mu = 0
    /\ pc = <<>>
    /\ req = <<>>
    /\ loc = <<>>
    /\ stable = <<>>
    /\ serial = <<>>
    /\ arg \in Calls
    /\ out = None

engine == <<todos, file, disk, now, last>>

Returns(v) ==
    /\ out = None
    /\ out' = Some(v)
    /\ UNCHANGED <<arg, engine, web>>

ApplySet ==
    /\ arg.op = "set"
    /\ Returns(setTodoOperation(arg.todos, Marshal(arg.todos), arg.disk,
                                arg.match, arg.patch, arg.now))

ApplyDelete ==
    /\ arg.op = "delete"
    /\ Returns(deleteTodoOperation(arg.todos, Marshal(arg.todos), arg.disk, arg.match))

ApplyAdd ==
    /\ arg.op = "add"
    /\ Returns(addTodoOperation(arg.todos, Marshal(arg.todos), arg.disk, arg.summary,
                                arg.details, arg.deadline, arg.priority, arg.now))

ApplyParse ==
    /\ arg.op = "priority"
    /\ Returns(addTodoOperation(<<>>, NoFile, "ok", <<"a">>, <<>>, <<>>, arg.text, NowStart))

ApplyValidate ==
    /\ arg.op = "deadline"
    /\ Returns(isValidDeadline(stringToDeadline(DateText(arg.day)).val[1], arg.now))

\* sortTodos returns one of the orders sort.Slice may produce.
ApplySort ==
    /\ arg.op = "sort"
    /\ \E q \in sortTodos(arg.todos) : Returns(q)

\* The comparator on every pair of three records.
ApplyLess ==
    /\ arg.op = "less"
    /\ Returns([aa |-> less(arg.a, arg.a),
                ab |-> less(arg.a, arg.b), ba |-> less(arg.b, arg.a),
                bc |-> less(arg.b, arg.c), cb |-> less(arg.c, arg.b),
                ac |-> less(arg.a, arg.c), ca |-> less(arg.c, arg.a)])

NextOps ==
    \/ ApplySort
    \/ ApplyLess
    \/ ApplySet
    \/ ApplyDelete
    \/ ApplyAdd
    \/ ApplyParse
    \/ ApplyValidate

SpecOps == InitOps /\ [][NextOps]_vars

-----------------------------------------------------------------------------
(* The web server: one handler per request, all sharing todos, file and mu *)

Requests == 1..MaxRequests

\* The requests the handlers are given.
WebRequests ==
    {[kind |-> "index"], [kind |-> "edit", match |-> <<"a">>],
     [kind |-> "delete", match |-> <<"a">>]}
    \cup [kind : {"add"}, summary : {<<" ">>, <<" ", "a">>}, priority : {<<>>}]
    \cup [kind : {"set"}, match : {<<"a">>},
          params : {q \in SetParams : q.done = <<"O", "n">> \/ q.summary = <<"b">>
                                        \/ q.priority = <<"6">>}]

\* A handler's local variables.
NoLocals ==
    [patch |-> TodoPatch(None, None, None, None, None), newTodo |-> None,
     i |-> 0, len |-> 0, updated |-> 0, newTodos |-> <<>>, removed |-> 0,
     read |-> FALSE, snap |-> <<>>, asof |-> <<>>, err |-> "", writes |-> 0]

InitWeb ==
    /\ todos = <<>>
    /\ file = NoFile
    /\ disk = "ok"
    /\ now = NowStart
    /\ last = NoResult
    /\ mu = 0
    /\ pc = [r \in Requests |-> "idle"]
    /\ req = [r \in Requests |-> [kind |-> "none"]]
    /\ loc = [r \in Requests |-> NoLocals]
    /\ stable = <<>>
    /\ serial = <<>>
    /\ arg = <<>>
    /\ out = None

Goto(r, to) == pc' = [pc EXCEPT ![r] = to]
fixed == <<disk, now, pure>>

\* What the writes of the server have come to: the outcome of the last one
\* (err) and whether any has failed (n).
Written(d) ==
    [op |-> "dump", err |-> IF d = "ok" THEN "" ELSE "write failed",
     n |-> IF d = "ok" THEN last.n ELSE 1, dumped |-> d = "ok"]

\* The adds that have passed validation and not appended yet.
Adding == {r \in Requests : pc[r] \in {"add_lock", "add_append"}}

\* What a handler does before it first asks for the lock: addTodoOperation
\* and setTodoOperation validate, the /api/set/ handler builds the patch.
\* They touch nothing shared, and a request they reject is answered at once.
Checked(q) ==
    CASE q.kind = "add" ->
            LET res == addTodoOperation(<<>>, NoFile, "ok", q.summary, <<>>, <<>>,
                                        q.priority, now)
            IN  IF res.err # "" THEN [NoLocals EXCEPT !.err = res.err]
                ELSE [NoLocals EXCEPT !.newTodo = Some(res.todos[1])]
      [] q.kind = "set" ->
            LET res == webSet(<<>>, NoFile, "ok", q.match, q.params, now)
            IN  IF res.err # "" THEN [NoLocals EXCEPT !.err = res.err]
                ELSE [NoLocals EXCEPT !.patch = paramsToPatch(q.params).patch]
      [] OTHER -> NoLocals

\* net/http starts the handler of a request.
Arrive(r) ==
    /\ pc[r] = "idle"
    /\ \E q \in WebRequests :
          /\ q.kind = "add" => Len(todos) + Cardinality(Adding) < MaxTodos
          /\ IF Checked(q).err # ""
             THEN UNCHANGED <<pc, req, loc>>
             ELSE /\ req' = [req EXCEPT ![r] = q]
                  /\ loc' = [loc EXCEPT ![r] = Checked(q)]
                  /\ Goto(r, CASE q.kind = "index" -> "ix_lock"
                               [] q.kind = "edit" -> "ed_lock"
                               [] q.kind = "add" -> "add_lock"
                               [] q.kind = "set" -> "set_lock"
                               [] OTHER -> "del_lock")
    /\ UNCHANGED <<todos, file, mu, stable, serial, last, fixed>>

\* The mutex that does not make a second caller wait.
Lock_NoWait(r, at, to) ==
    /\ pc[r] = at
    /\ mu' = r
    /\ Goto(r, to)
    /\ UNCHANGED <<todos, file, req, stable, last, fixed>>

\* mu.Lock()
Lock(r, at, to) ==
    /\ pc[r] = at
    /\ mu = 0
    /\ mu' = r
    /\ Goto(r, to)
    /\ UNCHANGED <<todos, file, req, stable, last, fixed>>

\* mu.Unlock(); the handler then writes its response and returns.
Unlock(r, at) ==
    /\ pc[r] = at
    /\ mu' = 0
    /\ Goto(r, "idle")
    /\ req' = [req EXCEPT ![r] = [kind |-> "none"]]
    /\ loc' = [loc EXCEPT ![r] = NoLocals]
    /\ UNCHANGED <<todos, file, stable, serial, last, fixed>>

\* The index handler that reads the collection without taking the lock.
IndexLock_Skipped(r) ==
    /\ pc[r] = "ix_lock"
    /\ Goto(r, "ix_read")
    /\ UNCHANGED <<todos, file, mu, req, loc, stable, serial, last, fixed>>

IndexLock(r) ==
    /\ Lock(r, "ix_lock", "ix_read")
    /\ UNCHANGED <<loc, serial>>

\* sortTodos copies the collection before it sorts the copy.
IndexRead(r) ==
    /\ pc[r] = "ix_read"
    /\ loc' = [loc EXCEPT ![r].read = TRUE, ![r].snap = todos, ![r].asof = stable]
    /\ Goto(r, "ix_unlock")
    /\ UNCHANGED <<todos, file, mu, req, stable, serial, last, fixed>>

IndexUnlock(r) == Unlock(r, "ix_unlock")

EditLock(r) ==
    /\ Lock(r, "ed_lock", "ed_find")
    /\ UNCHANGED <<loc, serial>>

EditFind(r) ==
    /\ pc[r] = "ed_find"
    /\ loc' = [loc EXCEPT ![r].read = TRUE,
                          ![r].snap = findFirstTodo(todos, req[r].match),
                          ![r].asof = findFirstTodo(stable, req[r].match)]
    /\ Goto(r, "ed_unlock")
    /\ UNCHANGED <<todos, file, mu, req, stable, serial, last, fixed>>

EditUnlock(r) == Unlock(r, "ed_unlock")

\* mu.Lock() of an add: from here on the add is the next in lock order.
AddLock(r) ==
    /\ Lock(r, "add_lock", "add_append")
    /\ serial' = addTodoOperation(serial, NoFile, "ok", req[r].summary, <<>>, <<>>,
                                  req[r].priority, now).todos
    /\ UNCHANGED loc

AddAppend(r) ==
    /\ pc[r] = "add_append"
    /\ todos' = Append(todos, loc[r].newTodo[1])
    /\ stable' = todos'
    /\ Goto(r, "add_dump")
    /\ UNCHANGED <<file, mu, req, loc, serial, last, fixed>>

\* The dump that leaves the file alone and reports success.
Dump_Skipped(r, at, to) ==
    /\ pc[r] = at
    /\ last' = Written("ok")
    /\ loc' = [loc EXCEPT ![r].writes = @ + 1]
    /\ Goto(r, to)
    /\ UNCHANGED <<todos, file, mu, req, stable, serial, fixed>>

\* The dump that puts the collection back as the file has it when the
\* write fails.
Dump_Rollback(r, at, to) ==
    /\ pc[r] = at
    /\ \E d \in DiskStates :
          /\ file' = dump(todos, file, d)
          /\ todos' = IF d = "ok" THEN todos ELSE load(file)
          /\ last' = Written(d)
    /\ loc' = [loc EXCEPT ![r].writes = @ + 1]
    /\ Goto(r, to)
    /\ UNCHANGED <<mu, req, stable, serial, fixed>>

\* dump(*todos), in each of the three operations: the write succeeds or
\* fails, the handler goes on to mu.Unlock() either way.
Dump(r, at, to) ==
    /\ pc[r] = at
    /\ \E d \in DiskStates :
          /\ file' = dump(todos, file, d)
          /\ last' = Written(d)
    /\ loc' = [loc EXCEPT ![r].writes = @ + 1]
    /\ Goto(r, to)
    /\ UNCHANGED <<todos, mu, req, stable, serial, fixed>>

AddDump(r) == Dump(r, "add_dump", "add_unlock")

AddUnlock(r) == Unlock(r, "add_unlock")

\* mu.Lock(), and patchTodos evaluates its range.
SetLock(r) ==
    /\ Lock(r, "set_lock", "set_patch")
    /\ loc' = [loc EXCEPT ![r].i = 1, ![r].len = Len(todos)]
    /\ serial' = webSet(serial, NoFile, "ok", req[r].match, req[r].params, now).todos

\* One pass of the loop of patchTodos, or its end.
SetPatch(r) ==
    /\ pc[r] = "set_patch"
    /\ LET i == loc[r].i IN
       IF i <= loc[r].len /\ i <= Len(todos)
       THEN /\ IF matches(todos[i], req[r].match)
               THEN /\ todos' = [todos EXCEPT ![i] = patchOne(todos[i], loc[r].patch, now)]
                    /\ loc' = [loc EXCEPT ![r].i = i + 1, ![r].updated = @ + 1]
               ELSE /\ todos' = todos
                    /\ loc' = [loc EXCEPT ![r].i = i + 1]
            /\ UNCHANGED <<pc, stable>>
       ELSE /\ stable' = todos
            /\ Goto(r, IF loc[r].updated > 0 THEN "set_dump" ELSE "set_unlock")
            /\ UNCHANGED <<todos, loc>>
    /\ UNCHANGED <<file, mu, req, serial, last, fixed>>

SetDump(r) == Dump(r, "set_dump", "set_unlock")

SetUnlock(r) == Unlock(r, "set_unlock")

DeleteLock(r) ==
    /\ Lock(r, "del_lock", "del_filter")
    /\ serial' = deleteTodoOperation(serial, NoFile, "ok", req[r].match).todos
    /\ UNCHANGED loc

\* The delete that returns without unlocking when nothing matches.
DeleteFilter_ReturnEarly(r) ==
    /\ pc[r] = "del_filter"
    /\ LET res == deleteTodos(todos, req[r].match)
       IN  IF res.deleted > 0
           THEN /\ loc' = [loc EXCEPT ![r].newTodos = res.todos,
                                      ![r].removed = res.deleted]
                /\ Goto(r, "del_assign")
                /\ UNCHANGED req
           ELSE /\ loc' = [loc EXCEPT ![r] = NoLocals]
                /\ req' = [req EXCEPT ![r] = [kind |-> "none"]]
                /\ Goto(r, "idle")
    /\ UNCHANGED <<todos, file, mu, stable, serial, last, fixed>>

\* deleteTodos builds the new slice.
DeleteFilter(r) ==
    /\ pc[r] = "del_filter"
    /\ LET res == deleteTodos(todos, req[r].match)
       IN  /\ loc' = [loc EXCEPT ![r].newTodos = res.todos, ![r].removed = res.deleted]
           /\ Goto(r, IF res.deleted > 0 THEN "del_assign" ELSE "del_unlock")
    /\ UNCHANGED <<todos, file, mu, req, stable, serial, last, fixed>>

DeleteAssign(r) ==
    /\ pc[r] = "del_assign"
    /\ todos' = loc[r].newTodos
    /\ stable' = todos'
    /\ Goto(r, "del_dump")
    /\ UNCHANGED <<file, mu, req, loc, serial, last, fixed>>

DeleteDump(r) == Dump(r, "del_dump", "del_unlock")

DeleteUnlock(r) == Unlock(r, "del_unlock")

NextWeb ==
    \E r \in Requests :
        \/ Arrive(r)
        \/ IndexLock(r)
        \/ IndexRead(r)
        \/ IndexUnlock(r)
        \/ EditLock(r)
        \/ EditFind(r)
        \/ EditUnlock(r)
        \/ AddLock(r)
        \/ AddAppend(r)
        \/ AddDump(r)
        \/ AddUnlock(r)
        \/ SetLock(r)
        \/ SetPatch(r)
        \/ SetDump(r)
        \/ SetUnlock(r)
        \/ DeleteLock(r)
        \/ DeleteFilter(r)
        \/ DeleteAssign(r)
        \/ DeleteDump(r)
        \/ DeleteUnlock(r)

SpecWeb == InitWeb /\ [][NextWeb]_vars

\* A handler that can take a step takes one; sync.Mutex hands the lock to a
\* goroutine that has waited (starvation mode), so one that finds the lock
\* free again and again gets it.
Proceed(r) ==
    \/ IndexRead(r) \/ IndexUnlock(r)
    \/ EditFind(r) \/ EditUnlock(r)
    \/ AddAppend(r) \/ AddDump(r) \/ AddUnlock(r)
    \/ SetPatch(r) \/ SetDump(r) \/ SetUnlock(r)
    \/ DeleteFilter(r) \/ DeleteAssign(r) \/ DeleteDump(r) \/ DeleteUnlock(r)

Acquire(r) ==
    IndexLock(r) \/ EditLock(r) \/ AddLock(r) \/ SetLock(r) \/ DeleteLock(r)

SpecWebFair ==
    /\ SpecWeb
    /\ \A r \in Requests : WF_vars(Proceed(r)) /\ SF_vars(Acquire(r))

-----------------------------------------------------------------------------
(* Claims *)

\* What a call returned, once it has.
Returned == out # None
Ret == out[1]
Matching(ts, match) == {i \in 1..Len(ts) : ts[i].Summary = match}
AllBlank(t) == \A i \in 1..Len(t) : t[i] = " "

\* C1: in every collection the add, set and delete operations reach, each
\* task is done exactly when its doneAt is set.
C1_DoneIffDoneAt ==
    \A i \in 1..Len(todos) : todos[i].Done <=> (todos[i].DoneAt # ZeroTime)

\* A set has acted, and the collection holds a done and a not-done task.
C1_Witness ==
    /\ last.op = "set" /\ last.n > 0
    /\ \E i, j \in 1..Len(todos) : todos[i].Done /\ ~todos[j].Done

\* C2: a set whose patch carries an invalid field (a priority outside 1..5,
\* a deadline the validator rejects, a blank summary) returns an error and
\* leaves the collection and the file as they were, without writing.
C2_InvalidPatch ==
    (Returned /\ arg.op = "set") =>
        LET p == arg.patch
            invalid == \/ p.Priority # None /\ p.Priority[1] \notin 1..5
                       \/ p.Deadline # None /\ ~isValidDeadline(p.Deadline[1], arg.now)
                       \/ p.Summary # None /\ AllBlank(p.Summary[1])
        IN  invalid => /\ Ret.err # ""
                       /\ Ret.todos = arg.todos
                       /\ Ret.file = Marshal(arg.todos)
                       /\ ~Ret.dumped

\* A set with priority 6 and valid details, on a collection with a record
\* that matches, has returned the priority error.
C2_Witness ==
    /\ Returned /\ arg.op = "set"
    /\ arg.patch.Priority = Some(6) /\ arg.patch.Details # None
    /\ Matching(arg.todos, arg.match) # {}
    /\ Ret.err = "priority out of range (1-5)"

\* C3: at most one request is inside the lock at a time, every read or
\* write of the collection and every file write is made by the holder of the
\* lock, and what a listing or an edit request reads is the collection as
\* the last completed mutation left it.
Waiting == {"idle", "ix_lock", "ed_lock", "add_lock", "set_lock", "del_lock"}
Accessing ==
    {"ix_read", "ed_find", "add_append", "add_dump", "set_patch", "set_dump",
     "del_filter", "del_assign", "del_dump"}
C3_LockProtects ==
    /\ Cardinality({r \in Requests : pc[r] \notin Waiting}) <= 1
    /\ \A r \in Requests : pc[r] \in Accessing => mu = r
    /\ \A r \in Requests : loc[r].read => loc[r].snap = loc[r].asof

\* A listing has read two records while a set waits for the lock.
C3_Witness ==
    \E r, q \in Requests :
        /\ pc[r] = "ix_unlock" /\ loc[r].read /\ Len(loc[r].snap) = 2
        /\ pc[q] = "set_lock"

\* C4: the deadline validator accepts a date exactly when its calendar day
\* is not before the calendar day of the clock, at every time of day.
C4_DayGranularity ==
    (Returned /\ arg.op = "deadline") => (Ret <=> (arg.day >= DayOf(arg.now)))

C6_EveryMatch ==
    (Returned /\ arg.op = "set" /\ Ret.err = "") =>
        LET hit == Matching(arg.todos, arg.match)
            p == arg.patch
        IN  /\ Ret.n = Cardinality(hit)
            /\ Len(Ret.todos) = Len(arg.todos)
            /\ \A i \in hit :
                  /\ p.Summary # None => Ret.todos[i].Summary = p.Summary[1]
                  /\ p.Details # None => Ret.todos[i].Details = p.Details[1]
                  /\ p.Priority # None => Ret.todos[i].Priority = p.Priority[1]
                  /\ p.Deadline # None => Ret.todos[i].Deadline = p.Deadline[1]
                  /\ p.Done = Some(TRUE) => Ret.todos[i].Done = ~arg.todos[i].Done
            /\ hit = {} => /\ Ret.todos = arg.todos
                           /\ Ret.file = Marshal(arg.todos)
                           /\ ~Ret.dumped
            /\ hit # {} => Ret.dumped

\* A set of the priority has updated two records with the same summary.
C6_Witness ==
    /\ Returned /\ arg.op = "set" /\ Ret.err = ""
    /\ arg.patch.Priority = Some(3)
    /\ Ret.n = 2
    /\ \E i, j \in 1..Len(arg.todos) :
          /\ i < j
          /\ arg.todos[i].Priority # 3 /\ arg.todos[j].Priority # 3
          /\ Ret.todos[i].Priority = 3 /\ Ret.todos[j].Priority = 3

\* C7: a patch with done=true makes a not-done task done with doneAt set;
\* the same patch again makes it not done with doneAt empty, as it was, and
\* a third time done again.
C7_Toggle ==
    (Returned /\ arg.op = "set" /\ Ret.err = "" /\ arg.patch.Done = Some(TRUE)
        /\ arg.patch.Summary = None) =>
        LET again == setTodoOperation(Ret.todos, Ret.file, arg.disk, arg.match,
                                      arg.patch, arg.now)
            third == setTodoOperation(again.todos, again.file, arg.disk, arg.match,
                                      arg.patch, arg.now)
        IN  \A i \in Matching(arg.todos, arg.match) :
                ~arg.todos[i].Done =>
                    /\ Ret.todos[i].Done /\ Ret.todos[i].DoneAt # ZeroTime
                    /\ ~again.todos[i].Done /\ again.todos[i].DoneAt = ZeroTime
                    /\ again.todos[i].Done = arg.todos[i].Done
                    /\ again.todos[i].DoneAt = arg.todos[i].DoneAt
                    /\ third.todos[i].Done /\ third.todos[i].DoneAt # ZeroTime

\* A patch with done=true has made a not-done task done.
C7_Witness ==
    /\ Returned /\ arg.op = "set" /\ Ret.err = "" /\ arg.patch.Done = Some(TRUE)
    /\ arg.patch.Summary = None
    /\ \E i \in Matching(arg.todos, arg.match) : ~arg.todos[i].Done /\ Ret.todos[i].Done

\* C8: every stored summary is non-empty and has no blank at either end.
C8_SummaryTrimmed ==
    \A i \in 1..Len(todos) :
        /\ todos[i].Summary # <<>>
        /\ Head(todos[i].Summary) # " "
        /\ todos[i].Summary[Len(todos[i].Summary)] # " "

\* C9: every stored priority is in 1..5, and an add with no priority text
\* stores priority 1.
C9_PriorityInRange ==
    /\ \A i \in 1..Len(todos) : todos[i].Priority \in 1..5
    /\ \A sm \in SummaryTexts, dl \in DeadlineTexts :
          LET r == addTodoOperation(todos, file, disk, sm, <<>>, dl, <<>>, now)
          IN  r.err = "" => r.todos[Len(r.todos)].Priority = 1

\* An add and a set have both succeeded: the collection holds a task of
\* priority 1 and one of priority 5.
C9_Witness ==
    /\ last.err = "" /\ last.n > 0
    /\ \E i, j \in 1..Len(todos) : todos[i].Priority = 1 /\ todos[j].Priority = 5

\* C10: for a priority text that is a decimal integer of any size the add
\* fails with the out-of-range error exactly when the integer is outside
\* 1..5, and the invalid-format error is returned only for other texts.
C10_ParseNoRange ==
    (Returned /\ arg.op = "priority") =>
        IF IsInteger(arg.text)
        THEN /\ Ret.err # "invalid priority format"
             /\ (Ret.err = "priority out of range (1-5)") <=> (IntegerValue(arg.text) \notin 1..5)
        ELSE Ret.err = "invalid priority format"

\* C11: an add that returns an error has changed neither the collection nor
\* the file, has written nothing and has not taken the lock; an add whose
\* summary is empty or blank returns the empty-summary error whatever its
\* other arguments are.
C11_AddFailsClosed ==
    (Returned /\ arg.op = "add") =>
        /\ Ret.err # "" => /\ Ret.todos = arg.todos
                           /\ Ret.file = Marshal(arg.todos)
                           /\ ~Ret.dumped
                           /\ ~Ret.locked
        /\ AllBlank(arg.summary) => Ret.err = "summary is required"
        /\ Ret.err \in {"", "summary is required", "invalid deadline format",
                        "deadline is before today", "invalid priority format",
                        "priority out of range (1-5)"}

\* An add with a valid summary and deadline and an unparsable priority has
\* failed on a collection of one record.
C11_Witness ==
    /\ Returned /\ arg.op = "add"
    /\ ~AllBlank(arg.summary) /\ arg.deadline = DateText(Today + 1)
    /\ arg.priority = <<"x">> /\ Len(arg.todos) = 1
    /\ Ret.err = "invalid priority format"

\* C12: delete removes exactly the records whose summary equals the match
\* string, keeps the others in their order, and returns how many it removed;
\* with none it returns the collection as it was and does not write the file.
C12_DeleteExact ==
    (Returned /\ arg.op = "delete") =>
        LET hit == Matching(arg.todos, arg.match)
            Keep(t) == t.Summary # arg.match
        IN  /\ Ret.todos = SelectSeq(arg.todos, Keep)
            /\ Ret.n = Cardinality(hit)
            /\ Len(Ret.todos) = Len(arg.todos) - Ret.n
            /\ Ret.err = ""
            /\ hit = {} => /\ Ret.todos = arg.todos /\ Ret.n = 0
                           /\ Ret.file = Marshal(arg.todos) /\ ~Ret.dumped
            /\ hit # {} => Ret.dumped

\* A delete has removed the two matching records of a collection of three
\* and kept the one between them.
C12_Witness ==
    /\ Returned /\ arg.op = "delete" /\ Len(arg.todos) = 3
    /\ Matching(arg.todos, arg.match) = {1, 3}
    /\ Ret.n = 2 /\ Ret.todos = <<arg.todos[2]>>

\* C19: a set leaves the length and the order of the collection, every
\* record that does not match, and on a record that matches every field the
\* patch does not carry: done and doneAt change only when the patch
\* asks done=true, and addedAt never changes, in a set or in an add.
C19_Frame ==
    /\ (Returned /\ arg.op = "set") =>
          LET hit == Matching(arg.todos, arg.match)
              p == arg.patch
          IN  /\ Len(Ret.todos) = Len(arg.todos)
              /\ \A i \in 1..Len(arg.todos) :
                    LET old == arg.todos[i]
                        new == Ret.todos[i]
                    IN  /\ new.AddedAt = old.AddedAt
                        /\ i \notin hit => new = old
                        /\ p.Summary = None => new.Summary = old.Summary
                        /\ p.Details = None => new.Details = old.Details
                        /\ p.Priority = None => new.Priority = old.Priority
                        /\ p.Deadline = None => new.Deadline = old.Deadline
                        /\ p.Done # Some(TRUE) =>
                              new.Done = old.Done /\ new.DoneAt = old.DoneAt
    /\ (Returned /\ arg.op = "add" /\ Ret.err = "") =>
          SubSeq(Ret.todos, 1, Len(arg.todos)) = arg.todos

\* A set of the priority alone has changed the first of two records, which
\* has kept its details, and left the second, which does not match.
C19_Witness ==
    /\ Returned /\ arg.op = "set" /\ Ret.err = "" /\ Len(arg.todos) = 2
    /\ arg.patch = TodoPatch(None, None, None, Some(3), None)
    /\ Matching(arg.todos, arg.match) = {1}
    /\ arg.todos[1].Details = <<"e">> /\ arg.todos[1].Priority = 2
    /\ Ret.todos[1] = [arg.todos[1] EXCEPT !.Priority = 3]
    /\ Ret.todos[2] = arg.todos[2]

\* C13: the display sort returns the records of its input with every
\* not-done task before every done one, done tasks of different doneAt
\* earlier first, not-done tasks of different deadlines earlier first, and
\* not-done tasks of one deadline and different priorities higher first; the
\* example A, B, C, D comes out as B, A, C, D.
C13_SortOrder ==
    (Returned /\ arg.op = "sort") =>
        /\ Len(Ret) = Len(arg.todos)
        /\ \E f \in Arrangements(Len(Ret)) : \A i \in 1..Len(Ret) : Ret[i] = arg.todos[f[i]]
        /\ \A i, j \in 1..Len(Ret) :
              i < j =>
                LET a == Ret[i]
                    b == Ret[j]
                IN  /\ ~(a.Done /\ ~b.Done)
                    /\ (a.Done /\ b.Done /\ a.DoneAt # b.DoneAt) => a.DoneAt < b.DoneAt
                    /\ (~a.Done /\ ~b.Done /\ a.Deadline # b.Deadline) =>
                          a.Deadline < b.Deadline
                    /\ (~a.Done /\ ~b.Done /\ a.Deadline = b.Deadline
                            /\ a.Priority # b.Priority) => a.Priority > b.Priority
        /\ (\E f \in Arrangements(4) : arg.todos = [i \in 1..4 |-> Example[f[i]]]) =>
              Ret = <<ExampleB, ExampleA, ExampleC, ExampleD>>

\* The example given as D, C, A, B has been sorted.
C13_Witness ==
    /\ Returned /\ arg.op = "sort"
    /\ arg.todos = <<ExampleD, ExampleC, ExampleA, ExampleB>>
    /\ Ret = <<ExampleB, ExampleA, ExampleC, ExampleD>>

\* C14: the comparator is a strict weak order: no task is before itself,
\* no two are each before the other (so exactly one of before, after and
\* ties holds), before is transitive and ties is transitive.
C14_StrictWeakOrder ==
    (Returned /\ arg.op = "less") =>
        LET tiesAB == ~Ret.ab /\ ~Ret.ba
            tiesBC == ~Ret.bc /\ ~Ret.cb
            tiesAC == ~Ret.ac /\ ~Ret.ca
        IN  /\ ~Ret.aa
            /\ ~(Ret.ab /\ Ret.ba)
            /\ (Ret.ab /\ Ret.bc) => Ret.ac
            /\ (tiesAB /\ tiesBC) => tiesAC
            /\ Cardinality({k \in {"before", "after", "ties"} :
                    \/ k = "before" /\ Ret.ab
                    \/ k = "after" /\ Ret.ba
                    \/ k = "ties" /\ tiesAB}) = 1

\* The comparator has put a before b, b before c and a before c, where a
\* is not done and b and c are done.
C14_Witness ==
    /\ Returned /\ arg.op = "less"
    /\ Ret.ab /\ Ret.bc /\ Ret.ac
    /\ ~arg.a.Done /\ arg.b.Done /\ arg.c.Done

\* C15: two tasks the earlier rules leave tied (not done with one deadline
\* and one priority, or done at one instant) and of different addedAt come
\* out of the display sort with the earlier addedAt first.
C15_AddedAtTieBreak ==
    (Returned /\ arg.op = "sort") =>
        \A i, j \in 1..Len(Ret) :
            LET a == Ret[i]
                b == Ret[j]
                tied == \/ ~a.Done /\ ~b.Done /\ a.Deadline = b.Deadline
                             /\ a.Priority = b.Priority
                        \/ a.Done /\ b.Done /\ a.DoneAt = b.DoneAt
            IN  (i < j /\ tied /\ a.AddedAt # b.AddedAt) => a.AddedAt < b.AddedAt

\* The requests that have made their file write and not unlocked yet.
AfterDump ==
    {r \in Requests : pc[r] \in {"add_unlock", "set_unlock", "del_unlock"}
                        /\ loc[r].writes > 0}

\* C16: as long as no file write has failed, the file holds the whole
\* in-memory collection after the write of every add, set and delete, and
\* whenever nobody holds the lock.
C16_FileFollowsMemory ==
    last.n = 0 =>
        /\ mu = 0 => load(file) = todos
        /\ \A r \in AfterDump : file = Marshal(todos)

\* A set has patched a record and written the file, which now holds two
\* records, one of them done.
C16_Witness ==
    /\ last.n = 0
    /\ \E r \in AfterDump :
          /\ pc[r] = "set_unlock" /\ loc[r].updated > 0
          /\ Len(file.doc) = 2 /\ file.doc = todos
          /\ \E i \in 1..2 : todos[i].Done

\* C17: a failed file write is not undone in memory and is not tried again:
\* the handler still holds the lock it is about to release, with the
\* collection as its mutation left it; once the lock is free the collection
\* is what the mutations made it, and that is what a listing reads; the file
\* is equal to it again after a write that succeeds.
C17_NoRollback ==
    /\ \A r \in Requests : loc[r].writes <= 1
    /\ \A r \in AfterDump : mu = r /\ todos = serial /\ todos = stable
    /\ mu = 0 => todos = serial
    /\ \A r \in Requests :
          (pc[r] = "ix_unlock" /\ loc[r].read) => loc[r].snap = serial
    /\ (mu = 0 /\ last.err = "") => load(file) = todos

\* After a write that failed, a listing has read a collection of one record
\* that the file does not hold.
C17_Witness ==
    /\ last.err # ""
    /\ \E r \in Requests :
          /\ pc[r] = "ix_unlock" /\ loc[r].read
          /\ Len(loc[r].snap) = 1 /\ loc[r].snap = todos
          /\ load(file) # todos

\* C18: whoever holds the lock is inside a handler, between its mu.Lock()
\* and its mu.Unlock(), and every request that has started completes, the
\* ones that wait for the lock included.
C18_Completes ==
    /\ [](\A r \in Requests : pc[r] \in Waiting => mu # r)
    /\ [](\A r \in Requests : pc[r] \notin Waiting => mu = r)
    /\ \A r \in Requests : (pc[r] # "idle") ~> (pc[r] = "idle")

\* A delete that matches nothing is about to unlock while an edit request
\* waits for the lock.
C18_Witness ==
    \E r, q \in Requests :
        /\ pc[r] = "del_unlock" /\ loc[r].removed = 0 /\ mu = r
        /\ pc[q] = "ed_lock"

\* C20: whenever the lock is free the collection is what the adds, sets and
\* deletes make of it run one at a time in the order in which they took the
\* lock, and so is the file when the last write succeeded; an add that has
\* appended has made the collection one longer than it found it.
C20_NoLostUpdate ==
    /\ mu = 0 => todos = serial
    /\ (mu = 0 /\ last.err = "") => load(file) = serial
    /\ \A r \in Requests :
          pc[r] \in {"add_dump", "add_unlock"} =>
              /\ Len(todos) = Len(serial)
              /\ todos[Len(todos)] = loc[r].newTodo[1]
              /\ Len(stable) = Len(todos)

\* Of two adds in flight together one has appended its task and written
\* the file while the other waits for the lock.
C20_Witness ==
    \E r, q \in Requests :
        /\ pc[r] = "add_unlock" /\ pc[q] = "add_lock"
        /\ Len(todos) = 1 /\ todos = serial /\ file = Marshal(todos)

=============================================================================
